---- MODULE Spec2Model ----
(***************************************************************************)
(* A model of edit.c: the row store with its tab-expanded render form, the *)
(* cursor and viewport of the global editor state E, the key dispatch of   *)
(* editorProcessKeypress, and the escape-sequence decoder editorReadKey.   *)
(*                                                                         *)
(* Three specifications share the variables:                                 *)
(*   Spec         the main loop (editorRefreshScreen; editorProcessKeypress)*)
(*                with the key that editorReadKey returns drawn from Keys;  *)
(*   SpecDecoder  editorReadKey itself, one step per read(2) of one byte.  *)
(*   SpecRows     the row operations editorRowInsertChar and               *)
(*                editorRowCxToRx applied to every row, offset and byte.   *)
(*                                                                         *)
(* Bytes are their codes 0..255.  A row's chars and render are sequences   *)
(* without the terminating NUL that the C buffers carry; position j of the *)
(* C array is element j+1 of the sequence.                                 *)
(***************************************************************************)
EXTENDS Integers, Sequences, FiniteSets, TLC

(* ------------------------------ defines ------------------------------- *)

EDIT_TAB_STOP == 8

ARROW_LEFT == 1000
ARROW_RIGHT == 1001
ARROW_UP == 1002
ARROW_DOWN == 1003
DEL_KEY == 1004
HOME_KEY == 1005
END_KEY == 1006
PAGE_UP == 1007
PAGE_DOWN == 1008

\* CTRL_KEY('q') = 'q' & 0x1f
CTRL_Q == 17
\* '\x1b'
ESC == 27
\* '\t'
TAB == 9
\* ' '
SPACE == 32

(* ------------------------------- bounds ------------------------------- *)

\* Character insertions per run (each insertion grows the document).
MaxInserts == 1
\* ARROW_DOWN can push cy past numrows without limit, and ARROW_LEFT can push
\* a negative cx (read from beyond the rows) further down without limit; the
\* model stops cy at numrows + MaxDrift and cx at -MaxDrift.
MaxDrift == 1

\* Insertions per run of the row-store specification SpecRows.
MaxRowInserts == 2

(* --------------------------- row operations --------------------------- *)

\* The loop body of editorRowCxToRx: one step over byte b at rendered column rx.
CxToRxStep_AddTabStop(b, rx) ==
    (IF b = TAB THEN rx + EDIT_TAB_STOP - (rx % EDIT_TAB_STOP) ELSE rx) + 1

CxToRxStep(b, rx) ==
    (IF b = TAB THEN rx + (EDIT_TAB_STOP - 1) - (rx % EDIT_TAB_STOP) ELSE rx) + 1

RECURSIVE CxToRxLoop(_, _, _, _)
CxToRxLoop(chars, j, cx, rx) ==
    IF j < cx
    THEN CxToRxLoop(chars, j + 1, cx, CxToRxStep(chars[j + 1], rx))
    ELSE rx

editorRowCxToRx(row, cx) == CxToRxLoop(row.chars, 0, cx, 0)

\* A slip in the tab expansion: the padding loop is missing, a tab renders
\* as one space.
PadToTabStop_None(render) == render

\* while (idx % EDIT_TAB_STOP != 0) render[idx++] = ' ';
RECURSIVE PadToTabStop(_)
PadToTabStop(render) ==
    IF Len(render) % EDIT_TAB_STOP # 0
    THEN PadToTabStop(Append(render, SPACE))
    ELSE render

\* The second loop of editorUpdateRow; idx is Len(render).
RECURSIVE RenderLoop(_, _, _)
RenderLoop(chars, j, render) ==
    IF j < Len(chars)
    THEN IF chars[j + 1] = TAB
         THEN RenderLoop(chars, j + 1, PadToTabStop(Append(render, SPACE)))
         ELSE RenderLoop(chars, j + 1, Append(render, chars[j + 1]))
    ELSE render

\* A slip in the render loop's start: for (j = 1; ...) skips the first byte.
editorUpdateRow_FromOne(row) ==
    LET r == RenderLoop(row.chars, 1, << >>)
    IN  [row EXCEPT !.render = r, !.rsize = Len(r)]

editorUpdateRow(row) ==
    LET r == RenderLoop(row.chars, 0, << >>)
    IN  [row EXCEPT !.render = r, !.rsize = Len(r)]

\* The row that editorAppendRow builds from s (len = Len(s)).
NewRow(s) ==
    editorUpdateRow([size |-> Len(s), rsize |-> 0, chars |-> s, render |-> << >>])

editorAppendRow(rows, s) == Append(rows, NewRow(s))

\* row->chars[at] = c stores the int c in a char: its low eight bits.
ToChar(c) == c % 256

\* A slip that forgets the re-render after the edit.
editorRowInsertChar_NoUpdate(row, at, c) ==
    LET a == IF at < 0 \/ at > row.size THEN row.size ELSE at
    IN  [row EXCEPT !.chars = SubSeq(row.chars, 1, a) \o << ToChar(c) >>
                                  \o SubSeq(row.chars, a + 1, row.size),
                    !.size = row.size + 1]

\* A slip that leaves out the memmove: the byte at `at` is overwritten, and the
\* row grows over its old terminating NUL.
editorRowInsertChar_NoShift(row, at, c) ==
    LET a == IF at < 0 \/ at > row.size THEN row.size ELSE at
    IN  editorUpdateRow(
            [row EXCEPT !.chars = [j \in 1..(row.size + 1) |->
                                     IF j = a + 1 THEN ToChar(c)
                                     ELSE IF j = row.size + 1 THEN 0
                                     ELSE row.chars[j]],
                        !.size = row.size + 1])

editorRowInsertChar(row, at, c) ==
    LET a == IF at < 0 \/ at > row.size THEN row.size ELSE at
    IN  editorUpdateRow(
            [row EXCEPT !.chars = SubSeq(row.chars, 1, a) \o << ToChar(c) >>
                                  \o SubSeq(row.chars, a + 1, row.size),
                        !.size = row.size + 1])

(* ------------------------------- state -------------------------------- *)

VARIABLES
    cx, cy, rx, rowoff, coloff, screenrows, screencols, numrows, row,
    frame, pc, status, out, ninserts,
    dpc, ch, seq, key, nread, timedout

\* struct editorConfig E (the fields the key handlers and the scroll use)
cursorVars == << cx, cy >>
\* frame: what editorDrawRows read from E for the frame on the screen: the file
\* row of screen line 0 (y + E.rowoff) and the first render column (E.coloff).
viewVars == << rx, rowoff, coloff, screenrows, screencols, frame >>
docVars == << numrows, row >>
\* where the main loop stands, how the process ended, what it wrote on exit,
\* and the number of insertions so far
loopVars == << pc, status, out, ninserts >>
\* editorReadKey's locals and position
decoderVars == << dpc, ch, seq, key, nread, timedout >>
vars == << cursorVars, viewVars, docVars, loopVars, decoderVars >>

(* ------------------------------ file i/o ------------------------------ *)

\* while (linelen > 0 && (line[linelen-1] == '\n' || line[linelen-1] == '\r')) linelen--;
RECURSIVE StripEol(_)
StripEol(line) ==
    IF Len(line) > 0 /\ line[Len(line)] \in {10, 13}
    THEN StripEol(SubSeq(line, 1, Len(line) - 1))
    ELSE line

\* editorOpen: one editorAppendRow per line that getline returns.
RECURSIVE editorOpen(_, _)
editorOpen(rows, lines) ==
    IF lines = << >>
    THEN rows
    ELSE editorOpen(editorAppendRow(rows, StripEol(Head(lines))), Tail(lines))

\* The files the model loads: none (no argument), the two-line file
\* "ab\tc", "" of the end-to-end scenario (the first line ending in CR LF),
\* and a one-line file whose tab sits at column 5, with no final newline.
InitFiles ==
    { << >>,
      << << 97, 98, 9, 99, 13, 10 >>, << 10 >> >>,
      << << 97, 97, 97, 97, 97, 9 >> >> }

\* Window sizes after initEditor's screenrows -= 2.
ScreenRows == {1, 2}
ScreenCols == {1, 4}

\* No key read yet.
NoKey == 0 - 1

InitDecoder ==
    /\ dpc = "first"
    /\ ch = 0
    /\ seq = << >>
    /\ key = NoKey
    /\ nread = 0
    /\ timedout = FALSE

\* initEditor, then editorOpen when a file is named.
InitEditor(files) ==
    /\ cx = 0
    /\ cy = 0
    /\ rx = 0
    /\ rowoff = 0
    /\ coloff = 0
    /\ screenrows \in ScreenRows
    /\ screencols \in ScreenCols
    /\ frame = << >>
    /\ \E f \in files :
          /\ row = editorOpen(<< >>, f)
          /\ numrows = Len(editorOpen(<< >>, f))
    /\ pc = "refresh"
    /\ status = "running"
    /\ out = << >>
    /\ ninserts = 0

Init == InitEditor(InitFiles) /\ InitDecoder

(* ------------------------------- output ------------------------------- *)

\* A slip in the vertical clamp: the window bottom lands one row short.
editorScroll_ShortBottom ==
    LET r == IF cy < numrows THEN editorRowCxToRx(row[cy + 1], cx) ELSE 0
        ro1 == IF cy < rowoff THEN cy ELSE rowoff
        ro2 == IF cy >= ro1 + screenrows THEN cy - screenrows ELSE ro1
        co1 == IF r < coloff THEN r ELSE coloff
        co2 == IF r >= co1 + screencols THEN r - screencols + 1 ELSE co1
    IN  [rx |-> r, rowoff |-> ro2, coloff |-> co2]

\* editorScroll: the values it leaves in E.rx, E.rowoff and E.coloff.
editorScroll ==
    LET r == IF cy < numrows THEN editorRowCxToRx(row[cy + 1], cx) ELSE 0
        ro1 == IF cy < rowoff THEN cy ELSE rowoff
        ro2 == IF cy >= ro1 + screenrows THEN cy - screenrows + 1 ELSE ro1
        co1 == IF r < coloff THEN r ELSE coloff
        co2 == IF r >= co1 + screencols THEN r - screencols + 1 ELSE co1
    IN  [rx |-> r, rowoff |-> ro2, coloff |-> co2]

\* The lines of editorDrawRows that read the offsets: filerow = y + E.rowoff
\* for screen line y = 0, and &render[E.coloff].
editorDrawRows(ro, co) == [filerow |-> 0 + ro, col |-> co]

\* A slip in the order: the frame is composed first, the scroll runs after it.
editorRefreshScreen_DrawFirst ==
    /\ status = "running"
    /\ pc = "refresh"
    /\ frame' = editorDrawRows(rowoff, coloff)
    /\ rx' = editorScroll.rx
    /\ rowoff' = editorScroll.rowoff
    /\ coloff' = editorScroll.coloff
    /\ pc' = "key"
    /\ UNCHANGED << cursorVars, screenrows, screencols, docVars,
                    status, out, ninserts, decoderVars >>

\* editorRefreshScreen: the scroll, then the frame is composed from the state
\* and written; composing changes nothing in E.
editorRefreshScreen ==
    /\ status = "running"
    /\ pc = "refresh"
    /\ rx' = editorScroll.rx
    /\ rowoff' = editorScroll.rowoff
    /\ coloff' = editorScroll.coloff
    /\ frame' = editorDrawRows(rowoff', coloff')
    /\ pc' = "key"
    /\ UNCHANGED << cursorVars, screenrows, screencols, docVars,
                    status, out, ninserts, decoderVars >>

(* -------------------------------- input ------------------------------- *)

\* What a read of E.row[i].size yields for i outside [0, numrows): whatever
\* lies in memory there.
GarbageSizes == {0 - 1, 0, 3}

\* row ? row->size : 0 for row = (i >= E.numrows) ? NULL : &E.row[i]
RowLen(i) == IF i >= numrows THEN 0 ELSE row[i + 1].size

\* A slip in ARROW_LEFT's wrap: E.cx = E.row[E.cy].size is missing.
editorMoveCursor_LeftNoEnd(c, k, g) ==
    LET hasRow == c.cy < numrows
        m == CASE k = ARROW_LEFT ->
                    IF c.cx # 0
                    THEN [cx |-> c.cx - 1, cy |-> c.cy, oob |-> FALSE]
                    ELSE IF c.cy > 0
                    THEN [cx |-> c.cx,
                          cy |-> c.cy - 1,
                          oob |-> ~(c.cy - 1 < numrows)]
                    ELSE [cx |-> c.cx, cy |-> c.cy, oob |-> FALSE]
               [] k = ARROW_RIGHT ->
                    IF hasRow /\ c.cx < row[c.cy + 1].size
                    THEN [cx |-> c.cx + 1, cy |-> c.cy, oob |-> FALSE]
                    ELSE IF hasRow /\ c.cx = row[c.cy + 1].size
                    THEN [cx |-> 0, cy |-> c.cy + 1, oob |-> FALSE]
                    ELSE [cx |-> c.cx, cy |-> c.cy, oob |-> FALSE]
               [] k = ARROW_UP ->
                    IF c.cy # 0
                    THEN [cx |-> c.cx, cy |-> c.cy - 1, oob |-> FALSE]
                    ELSE [cx |-> c.cx, cy |-> c.cy, oob |-> FALSE]
               [] k = ARROW_DOWN ->
                    IF c.cx < numrows
                    THEN [cx |-> c.cx, cy |-> c.cy + 1, oob |-> FALSE]
                    ELSE [cx |-> c.cx, cy |-> c.cy, oob |-> FALSE]
               [] OTHER -> [cx |-> c.cx, cy |-> c.cy, oob |-> FALSE]
    IN  [m EXCEPT !.cx = IF m.cx > RowLen(m.cy) THEN RowLen(m.cy) ELSE m.cx]

\* editorMoveCursor(key) from cursor c = [cx, cy]; g is the value that the
\* read of E.row[E.cy].size yields when E.cy is no row.  The result carries
\* oob = TRUE when that read happened.
editorMoveCursor(c, k, g) ==
    LET hasRow == c.cy < numrows
        m == CASE k = ARROW_LEFT ->
                    IF c.cx # 0
                    THEN [cx |-> c.cx - 1, cy |-> c.cy, oob |-> FALSE]
                    ELSE IF c.cy > 0
                    THEN [cx |-> IF c.cy - 1 < numrows
                                 THEN row[c.cy].size ELSE g,
                          cy |-> c.cy - 1,
                          oob |-> ~(c.cy - 1 < numrows)]
                    ELSE [cx |-> c.cx, cy |-> c.cy, oob |-> FALSE]
               [] k = ARROW_RIGHT ->
                    IF hasRow /\ c.cx < row[c.cy + 1].size
                    THEN [cx |-> c.cx + 1, cy |-> c.cy, oob |-> FALSE]
                    ELSE IF hasRow /\ c.cx = row[c.cy + 1].size
                    THEN [cx |-> 0, cy |-> c.cy + 1, oob |-> FALSE]
                    ELSE [cx |-> c.cx, cy |-> c.cy, oob |-> FALSE]
               [] k = ARROW_UP ->
                    IF c.cy # 0
                    THEN [cx |-> c.cx, cy |-> c.cy - 1, oob |-> FALSE]
                    ELSE [cx |-> c.cx, cy |-> c.cy, oob |-> FALSE]
               [] k = ARROW_DOWN ->
                    IF c.cx < numrows
                    THEN [cx |-> c.cx, cy |-> c.cy + 1, oob |-> FALSE]
                    ELSE [cx |-> c.cx, cy |-> c.cy, oob |-> FALSE]
               [] OTHER -> [cx |-> c.cx, cy |-> c.cy, oob |-> FALSE]
    IN  [m EXCEPT !.cx = IF m.cx > RowLen(m.cy) THEN RowLen(m.cy) ELSE m.cx]

\* while (times--) editorMoveCursor(k);
RECURSIVE MoveTimes(_, _, _)
MoveTimes(c, k, times) ==
    IF times = 0
    THEN c
    ELSE MoveTimes(editorMoveCursor(c, k, 0), k, times - 1)

\* The keys editorReadKey can return that the model feeds to the dispatch:
\* every named key, Ctrl-Q, and the bytes tab and 'a'.  (Any other byte,
\* the literal Escape included, takes the same default case as 'a'.)
Keys ==
    { ARROW_LEFT, ARROW_RIGHT, ARROW_UP, ARROW_DOWN, DEL_KEY, HOME_KEY,
      END_KEY, PAGE_UP, PAGE_DOWN, CTRL_Q, TAB, 97 }

\* The part of a key step that every case shares.
KeyStep(k) ==
    /\ status = "running"
    /\ pc = "key"
    /\ UNCHANGED << viewVars, decoderVars >>

\* A slip in the quit case: the two writes swapped.
KeyQuit_HomeFirst(k) ==
    /\ k = CTRL_Q
    /\ KeyStep(k)
    /\ out' = out \o << "ESC[H", "ESC[2J" >>
    /\ status' = "exited"
    /\ UNCHANGED << cursorVars, docVars, pc, ninserts >>

\* case CTRL_KEY('q'): two writes, then exit(0)
KeyQuit(k) ==
    /\ k = CTRL_Q
    /\ KeyStep(k)
    /\ out' = out \o << "ESC[2J", "ESC[H" >>
    /\ status' = "exited"
    /\ UNCHANGED << cursorVars, docVars, pc, ninserts >>

\* case HOME_KEY
KeyHome(k) ==
    /\ k = HOME_KEY
    /\ KeyStep(k)
    /\ cx' = 0
    /\ pc' = "refresh"
    /\ UNCHANGED << cy, docVars, status, out, ninserts >>

\* case END_KEY
KeyEnd(k) ==
    /\ k = END_KEY
    /\ KeyStep(k)
    /\ cx' = IF cy < numrows THEN row[cy + 1].size ELSE cx
    /\ pc' = "refresh"
    /\ UNCHANGED << cy, docVars, status, out, ninserts >>

\* case PAGE_UP, PAGE_DOWN
KeyPage(k) ==
    /\ k \in {PAGE_UP, PAGE_DOWN}
    /\ KeyStep(k)
    /\ LET start == IF k = PAGE_UP
                    THEN rowoff
                    ELSE IF rowoff + screenrows - 1 > numrows
                         THEN numrows
                         ELSE rowoff + screenrows - 1
           m == MoveTimes([cx |-> cx, cy |-> start],
                          IF k = PAGE_UP THEN ARROW_UP ELSE ARROW_DOWN,
                          screenrows)
       IN  /\ m.cy <= numrows + MaxDrift
           /\ cx' = m.cx
           /\ cy' = m.cy
    /\ pc' = "refresh"
    /\ UNCHANGED << docVars, status, out, ninserts >>

\* case ARROW_UP, ARROW_DOWN, ARROW_LEFT, ARROW_RIGHT
KeyArrow(k) ==
    /\ k \in {ARROW_UP, ARROW_DOWN, ARROW_LEFT, ARROW_RIGHT}
    /\ KeyStep(k)
    /\ \E g \in GarbageSizes :
          LET m == editorMoveCursor([cx |-> cx, cy |-> cy], k, g)
          IN  /\ m.cy <= numrows + MaxDrift
              /\ m.cx >= 0 - MaxDrift
              /\ cx' = m.cx
              /\ cy' = m.cy
    /\ pc' = "refresh"
    /\ UNCHANGED << docVars, status, out, ninserts >>

\* A slip in editorInsertChar: the E.cx++ after the insertion is missing.
KeyInsert_NoAdvance(k) ==
    /\ k \notin { CTRL_Q, HOME_KEY, END_KEY, PAGE_UP, PAGE_DOWN,
                  ARROW_UP, ARROW_DOWN, ARROW_LEFT, ARROW_RIGHT }
    /\ KeyStep(k)
    /\ ninserts < MaxInserts
    /\ cy <= numrows
    /\ LET rows1 == IF cy = numrows THEN editorAppendRow(row, << >>) ELSE row
       IN  /\ row' = [rows1 EXCEPT ![cy + 1] = editorRowInsertChar(@, cx, k)]
           /\ numrows' = Len(rows1)
    /\ ninserts' = ninserts + 1
    /\ pc' = "refresh"
    /\ UNCHANGED << cx, cy, status, out >>

\* default: editorInsertChar(c), for a cursor on a row or on the virtual row
\* cy == numrows (a row is appended first).
KeyInsert(k) ==
    /\ k \notin { CTRL_Q, HOME_KEY, END_KEY, PAGE_UP, PAGE_DOWN,
                  ARROW_UP, ARROW_DOWN, ARROW_LEFT, ARROW_RIGHT }
    /\ KeyStep(k)
    /\ ninserts < MaxInserts
    /\ cy <= numrows
    /\ LET rows1 == IF cy = numrows THEN editorAppendRow(row, << >>) ELSE row
       IN  /\ row' = [rows1 EXCEPT ![cy + 1] = editorRowInsertChar(@, cx, k)]
           /\ numrows' = Len(rows1)
    /\ cx' = cx + 1
    /\ ninserts' = ninserts + 1
    /\ pc' = "refresh"
    /\ UNCHANGED << cy, status, out >>

\* default: editorInsertChar(c) with cy > numrows: E.row[E.cy] is outside the
\* array.  The realloc of the pointer found there aborts the process, or the
\* writes land beyond the rows and the handler returns.
KeyInsertOutside(k) ==
    /\ k \notin { CTRL_Q, HOME_KEY, END_KEY, PAGE_UP, PAGE_DOWN,
                  ARROW_UP, ARROW_DOWN, ARROW_LEFT, ARROW_RIGHT }
    /\ KeyStep(k)
    /\ ninserts < MaxInserts
    /\ cy > numrows
    /\ ninserts' = ninserts + 1
    /\ \/ /\ status' = "crashed"
          /\ UNCHANGED << cx, pc >>
       \/ /\ cx' = cx + 1
          /\ pc' = "refresh"
          /\ UNCHANGED status
    /\ UNCHANGED << cy, docVars, out >>

\* editorProcessKeypress, with c = editorReadKey() drawn from Keys.
editorProcessKeypress ==
    \E k \in Keys :
        \/ KeyQuit(k)
        \/ KeyHome(k)
        \/ KeyEnd(k)
        \/ KeyPage(k)
        \/ KeyArrow(k)
        \/ KeyInsert(k)
        \/ KeyInsertOutside(k)

\* main: while (1) { editorRefreshScreen(); editorProcessKeypress(); }
Next == editorRefreshScreen \/ editorProcessKeypress

Spec == Init /\ [][Next]_vars

(* ------------------------ terminal: editorReadKey --------------------- *)

\* seq[1] >= '0' && seq[1] <= '9'
IsDigit_FromOne(b) == b >= 49 /\ b <= 57

IsDigit(b) == b >= 48 /\ b <= 57

\* A slip in the switch on seq[1] after ESC [ : 'C' and 'D' exchanged.
BracketLetterKey_Swapped(b) ==
    CASE b = 65 -> ARROW_UP
      [] b = 66 -> ARROW_DOWN
      [] b = 67 -> ARROW_LEFT
      [] b = 68 -> ARROW_RIGHT
      [] b = 72 -> HOME_KEY
      [] b = 70 -> END_KEY
      [] OTHER -> ESC

\* A slip in the same switch: an unmapped byte is returned as itself.
BracketLetterKey_PassThrough(b) ==
    CASE b = 65 -> ARROW_UP
      [] b = 66 -> ARROW_DOWN
      [] b = 67 -> ARROW_RIGHT
      [] b = 68 -> ARROW_LEFT
      [] b = 72 -> HOME_KEY
      [] b = 70 -> END_KEY
      [] OTHER -> b

\* ESC [ b with b no digit: switch (seq[1]), falling out to return '\x1b'.
BracketLetterKey(b) ==
    CASE b = 65 -> ARROW_UP
      [] b = 66 -> ARROW_DOWN
      [] b = 67 -> ARROW_RIGHT
      [] b = 68 -> ARROW_LEFT
      [] b = 72 -> HOME_KEY
      [] b = 70 -> END_KEY
      [] OTHER -> ESC

\* ESC [ d t with d a digit: '~' selects by d, anything else falls out to
\* return '\x1b'.
BracketDigitKey(d, t) ==
    IF t = 126
    THEN CASE d = 49 -> HOME_KEY
           [] d = 51 -> DEL_KEY
           [] d = 52 -> END_KEY
           [] d = 53 -> PAGE_UP
           [] d = 54 -> PAGE_DOWN
           [] d = 55 -> HOME_KEY
           [] d = 56 -> END_KEY
           [] OTHER -> ESC
    ELSE ESC

\* ESC O b
OKey(b) ==
    CASE b = 72 -> HOME_KEY
      [] b = 70 -> END_KEY
      [] OTHER -> ESC

\* A slip: a read that yields no byte is tried again instead of giving up.
SeqReadFail_Retry == [dpc |-> dpc, key |-> NoKey]

\* if (read(STDIN_FILENO, &seq[i], 1) != 1) return '\x1b';
SeqReadFail == [dpc |-> "done", key |-> ESC]

\* The bytes the terminal sends in the model: ESC, '[', 'O', the letters
\* 'A'..'D', 'F', 'H', 'Z', 'x', the digits, '~', Ctrl-Q, tab and 'a'.
Bytes ==
    {ESC, 91, 79, 65, 66, 67, 68, 70, 72, 90, 120, 126, CTRL_Q, TAB, 97}
        \cup (48..57)

\* editorReadKey is entered from editorProcessKeypress.
Reading(p) ==
    /\ status = "running"
    /\ pc = "key"
    /\ dpc = p
    /\ UNCHANGED << cursorVars, viewVars, docVars, pc, ninserts >>

\* while ((nread = read(STDIN_FILENO, &c, 1)) != 1): a byte arrives.  A read
\* that times out (VMIN = 0, VTIME = 1) repeats the loop and changes nothing.
ReadFirst ==
    /\ Reading("first")
    /\ \E b \in Bytes :
          /\ ch' = b
          /\ IF b = ESC
             THEN dpc' = "seq0" /\ key' = NoKey
             ELSE dpc' = "done" /\ key' = b
    /\ UNCHANGED << seq, nread, timedout, status, out >>

\* ... the read fails with an errno other than EAGAIN: die("read") clears the
\* screen, prints the error and exits with code 1.
ReadFirstDie ==
    /\ Reading("first")
    /\ status' = "died"
    /\ out' = out \o << "ESC[2J", "ESC[H" >>
    /\ UNCHANGED << dpc, ch, seq, key, nread, timedout >>

\* read(STDIN_FILENO, &seq[0], 1)
ReadSeq0 ==
    /\ Reading("seq0")
    /\ nread' = nread + 1
    /\ \/ \E b \in Bytes :
             /\ seq' = << b >>
             /\ dpc' = "seq1"
             /\ UNCHANGED << key, timedout >>
       \/ /\ dpc' = SeqReadFail.dpc
          /\ key' = SeqReadFail.key
          /\ timedout' = TRUE
          /\ UNCHANGED seq
    /\ UNCHANGED << ch, status, out >>

\* read(STDIN_FILENO, &seq[1], 1), then the tests on seq[0] and seq[1]
ReadSeq1 ==
    /\ Reading("seq1")
    /\ nread' = nread + 1
    /\ \/ \E b \in Bytes :
             /\ seq' = Append(seq, b)
             /\ IF seq[1] = 91
                THEN IF IsDigit(b)
                     THEN dpc' = "seq2" /\ key' = NoKey
                     ELSE dpc' = "done" /\ key' = BracketLetterKey(b)
                ELSE IF seq[1] = 79
                THEN dpc' = "done" /\ key' = OKey(b)
                ELSE dpc' = "done" /\ key' = ESC
             /\ UNCHANGED timedout
       \/ /\ dpc' = SeqReadFail.dpc
          /\ key' = SeqReadFail.key
          /\ timedout' = TRUE
          /\ UNCHANGED seq
    /\ UNCHANGED << ch, status, out >>

\* read(STDIN_FILENO, &seq[2], 1), then the test for '~'
ReadSeq2 ==
    /\ Reading("seq2")
    /\ nread' = nread + 1
    /\ \/ \E b \in Bytes :
             /\ seq' = Append(seq, b)
             /\ dpc' = "done"
             /\ key' = BracketDigitKey(seq[2], b)
             /\ UNCHANGED timedout
       \/ /\ dpc' = SeqReadFail.dpc
          /\ key' = SeqReadFail.key
          /\ timedout' = TRUE
          /\ UNCHANGED seq
    /\ UNCHANGED << ch, status, out >>

\* editorReadKey returns key to editorProcessKeypress; the locals die.  What
\* the dispatch does with the key is the other specification's matter: here
\* the main loop just goes on to the next refresh.
ReturnKey ==
    /\ status = "running"
    /\ pc = "key"
    /\ dpc = "done"
    /\ dpc' = "first"
    /\ ch' = 0
    /\ seq' = << >>
    /\ key' = NoKey
    /\ nread' = 0
    /\ timedout' = FALSE
    /\ pc' = "refresh"
    /\ UNCHANGED << cursorVars, viewVars, docVars, status, out, ninserts >>

NextDecoder ==
    \/ editorRefreshScreen
    \/ ReadFirst
    \/ ReadFirstDie
    \/ ReadSeq0
    \/ ReadSeq1
    \/ ReadSeq2
    \/ ReturnKey

SpecDecoder == Init /\ [][NextDecoder]_vars

(* ---------------------- the row operations alone ---------------------- *)

\* The bytes inserted into rows in SpecRows.
InsertBytes == {TAB, 97}

\* editorRowInsertChar(&E.row[i], at, c) for any row, any offset (one below
\* and one above the valid ones included: both are clamped to size) and any
\* byte of InsertBytes.
RowInsertChar ==
    /\ ninserts < MaxRowInserts
    /\ \E i \in 1..numrows : \E at \in (0 - 1)..(row[i].size + 1) :
          \E c \in InsertBytes :
             row' = [row EXCEPT ![i] = editorRowInsertChar(@, at, c)]
    /\ ninserts' = ninserts + 1
    /\ UNCHANGED << cursorVars, viewVars, numrows, pc, status, out,
                    decoderVars >>

\* E.rx = editorRowCxToRx(&E.row[E.cy], E.cx) for any row and any cx in
\* [0, size].
RowCxToRx ==
    /\ \E i \in 1..numrows : \E k \in 0..row[i].size :
          /\ cy' = i - 1
          /\ cx' = k
          /\ rx' = editorRowCxToRx(row[i], k)
    /\ UNCHANGED << rowoff, coloff, screenrows, screencols, frame, docVars,
                    loopVars, decoderVars >>

NextRows == RowInsertChar \/ RowCxToRx

\* The loaded documents of Init, in one window size.
InitRows == Init /\ screenrows = 1 /\ screencols = 1

SpecRows == InitRows /\ [][NextRows]_vars

(* ============================== properties ============================ *)

\* Bytes tried as the inserted byte c in statements about every byte.
SampleBytes == {0, TAB, 97, 255}

(* C1: after any sequence of arrows, Home, End, PageUp, PageDown and
   character insertions from a loaded document with the cursor at (0,0),
   0 <= cy <= numrows and 0 <= cx <= size of row cy (0 on the virtual row
   cy == numrows).  Stated as the claim states it; ARROW_DOWN breaks it. *)
C1_CursorClamp ==
    /\ 0 <= cy
    /\ cy <= numrows
    /\ 0 <= cx
    /\ cx <= RowLen(cy)

(* C2: ARROW_UP decreases cy by exactly one when cy > 0 and leaves it alone
   when cy == 0; ARROW_DOWN increases cy by exactly one when cy < numrows and
   leaves it alone when cy == numrows; cx plays no part.  Stated as the claim
   states it, over every key step of the main loop. *)
C2_VerticalStep ==
    [][ /\ KeyArrow(ARROW_UP) => cy' = (IF cy > 0 THEN cy - 1 ELSE cy)
        /\ KeyArrow(ARROW_DOWN) => cy' = (IF cy < numrows THEN cy + 1 ELSE cy)
      ]_vars

(* C3: right after every editorScroll (the main loop stands between the
   refresh and the next key), the cursor lies in the window:
   rowoff <= cy < rowoff + screenrows and coloff <= rx < coloff + screencols,
   with rx the rendered column of cx on row cy, 0 when cy >= numrows. *)
C3_ViewportContainment ==
    (pc = "key" /\ screenrows >= 1 /\ screencols >= 1) =>
        /\ rx = (IF cy < numrows THEN editorRowCxToRx(row[cy + 1], cx) ELSE 0)
        /\ rowoff <= cy
        /\ cy < rowoff + screenrows
        /\ coloff <= rx
        /\ rx < coloff + screencols

\* The scroll has moved the window both down and right.
C3_Witness ==
    /\ pc = "key"
    /\ rowoff > 0
    /\ coloff > 0
    /\ cy = rowoff + screenrows - 1
    /\ rx = coloff + screencols - 1

(* C8: for every row of size n, every offset k in 0..n and every byte c,
   editorRowInsertChar(row, k, c) is a row of size n+1 whose bytes [0,k) are
   the old bytes [0,k), whose byte k is c, and whose bytes [k+1,n+1) are the
   old bytes [k,n).  Checked on every row that insertions into the loaded
   rows produce. *)
C8_InsertPreservesNeighbours ==
    \A i \in 1..Len(row) :
      \A k \in 0..row[i].size :
        \A c \in SampleBytes :
          LET old == row[i].chars
              n == row[i].size
              new == editorRowInsertChar(row[i], k, c)
          IN  /\ new.size = n + 1
              /\ Len(new.chars) = n + 1
              /\ \A j \in 0..(k - 1) : new.chars[j + 1] = old[j + 1]
              /\ new.chars[k + 1] = c
              /\ \A j \in (k + 1)..n : new.chars[j + 1] = old[j]

\* A tab has been inserted strictly inside the loaded row "ab\tc", between
\* 'b' and 'c'.
C8_Witness ==
    /\ ninserts = 1
    /\ numrows = 2
    /\ row[1].size = 5
    /\ row[1].chars = << 97, 98, 9, 9, 99 >>

\* n spaces
Spaces(n) == [j \in 1..n |-> SPACE]

\* The tab expansion of chars, from rendered column col on: a tab becomes the
\* spaces up to the next multiple of the tab stop, any other byte is copied.
RECURSIVE TabExpansion(_, _)
TabExpansion(chars, col) ==
    IF chars = << >>
    THEN << >>
    ELSE IF Head(chars) = TAB
    THEN LET w == EDIT_TAB_STOP - (col % EDIT_TAB_STOP)
         IN  Spaces(w) \o TabExpansion(Tail(chars), col + w)
    ELSE << Head(chars) >> \o TabExpansion(Tail(chars), col + 1)

(* C9: in every reachable state, every row i in [0, numrows) has render equal
   to the tab expansion of chars and rsize equal to the length of render (and
   size to the length of chars): no operation changes chars without
   re-deriving render. *)
C9_RenderInvariant ==
    /\ numrows = Len(row)
    /\ \A i \in 1..numrows :
          /\ row[i].size = Len(row[i].chars)
          /\ row[i].render = TabExpansion(row[i].chars, 0)
          /\ row[i].rsize = Len(row[i].render)

\* A key has changed a row that holds a tab, and its render is longer than
\* its chars.
C9_Witness ==
    /\ ninserts >= 1
    /\ cy < numrows
    /\ cx >= 1
    /\ \E j \in 1..row[cy + 1].size : row[cy + 1].chars[j] = TAB
    /\ row[cy + 1].rsize > row[cy + 1].size
    /\ row[cy + 1].size >= 2

(* C10: on every row, editorRowCxToRx is non-decreasing in cx over [0, size];
   stepping over a tab at rendered column r leads to the next multiple of 8
   strictly greater than r (between 1 and 8 columns); stepping over any other
   byte adds exactly 1. *)
C10_CxToRxTabRule ==
    \A i \in 1..Len(row) :
      LET f == [j \in 0..row[i].size |-> editorRowCxToRx(row[i], j)]
      IN  /\ \A a, b \in 0..row[i].size : a <= b => f[a] <= f[b]
          /\ \A j \in 0..(row[i].size - 1) :
                IF row[i].chars[j + 1] = TAB
                THEN /\ f[j + 1] % 8 = 0
                     /\ f[j + 1] > f[j]
                     /\ f[j + 1] - 8 <= f[j]
                ELSE f[j + 1] = f[j] + 1

\* editorRowCxToRx has returned 8 for the offset right after a tab that sits
\* at rendered column 5, on a row that also holds a tab at column 8 ending at
\* 16.
C10_Witness ==
    /\ cy < numrows
    /\ cx >= 1
    /\ row[cy + 1].chars[cx] = TAB
    /\ editorRowCxToRx(row[cy + 1], cx - 1) = 5
    /\ rx = 8
    /\ \E j \in 1..row[cy + 1].size :
          /\ row[cy + 1].chars[j] = TAB
          /\ editorRowCxToRx(row[cy + 1], j - 1) = 8
          /\ editorRowCxToRx(row[cy + 1], j) = 16

(* ------------------------- the decoder's claims ----------------------- *)

\* The bytes editorReadKey has consumed for the key it is decoding.
Consumed == IF dpc = "first" THEN << >> ELSE << ch >> \o seq

\* The recognised escape sequences and their keys, as the decoding table
\* lists them.
RecognisedKey ==
    [s \in { << ESC, 91, 65 >>, << ESC, 91, 66 >>, << ESC, 91, 67 >>,
             << ESC, 91, 68 >>, << ESC, 91, 72 >>, << ESC, 91, 70 >>,
             << ESC, 79, 72 >>, << ESC, 79, 70 >>,
             << ESC, 91, 49, 126 >>, << ESC, 91, 51, 126 >>,
             << ESC, 91, 52, 126 >>, << ESC, 91, 53, 126 >>,
             << ESC, 91, 54, 126 >>, << ESC, 91, 55, 126 >>,
             << ESC, 91, 56, 126 >> } |->
        IF Len(s) = 4
        THEN CASE s[3] \in {49, 55} -> HOME_KEY
               [] s[3] = 51 -> DEL_KEY
               [] s[3] \in {52, 56} -> END_KEY
               [] s[3] = 53 -> PAGE_UP
               [] s[3] = 54 -> PAGE_DOWN
        ELSE IF s[2] = 79
        THEN (IF s[3] = 72 THEN HOME_KEY ELSE END_KEY)
        ELSE CASE s[3] = 65 -> ARROW_UP
               [] s[3] = 66 -> ARROW_DOWN
               [] s[3] = 67 -> ARROW_RIGHT
               [] s[3] = 68 -> ARROW_LEFT
               [] s[3] = 72 -> HOME_KEY
               [] s[3] = 70 -> END_KEY]

Recognised == DOMAIN RecognisedKey

\* s is a proper prefix of t
ProperPrefix(s, t) == Len(s) < Len(t) /\ SubSeq(t, 1, Len(s)) = s

(* C4: when the bytes read are a complete recognised sequence, the decoder
   returns the key the table gives and has consumed exactly that sequence
   (it neither stops inside one nor reads past one, and returns nothing
   before the sequence is complete); a byte other than ESC read in the
   Normal state is returned as itself, alone. *)
C4_DecodingTable ==
    /\ dpc # "done" => key = NoKey
    /\ dpc \in {"seq0", "seq1", "seq2"} => Consumed \notin Recognised
    /\ (dpc = "done" /\ ~timedout) =>
          /\ ch # ESC => (key = ch /\ Consumed = << ch >>)
          /\ Consumed \in Recognised => key = RecognisedKey[Consumed]
          /\ \A s \in Recognised :
                ~ProperPrefix(s, Consumed) /\ ~ProperPrefix(Consumed, s)

\* ESC [ 3 ~ has been decoded to Delete.
C4_Witness ==
    /\ dpc = "done"
    /\ ~timedout
    /\ Consumed = << ESC, 91, 51, 126 >>
    /\ key = DEL_KEY

(* C5: after the byte ESC, editorReadKey returns after at most three further
   read attempts whatever they yield (each attempt moves it one step on), and
   when an attempt yields no byte the key returned is the literal Escape. *)
C5_NoStall ==
    /\ dpc = "seq0" => nread = 0
    /\ dpc = "seq1" => nread = 1
    /\ dpc = "seq2" => nread = 2
    /\ dpc = "done" => (nread <= 3 /\ key # NoKey)
    /\ (dpc = "done" /\ ch # ESC) => nread = 0
    /\ timedout => (dpc = "done" /\ key = ESC /\ Len(seq) = nread - 1)

\* The third attempt, after ESC [ 5, found no byte: Escape is returned.
C5_Witness ==
    /\ dpc = "done"
    /\ timedout
    /\ nread = 3
    /\ Consumed = << ESC, 91, 53 >>
    /\ key = ESC

(* C6: a sequence that starts with ESC and is not a recognised sequence
   yields exactly one key, the literal Escape, for the bytes consumed (no key
   is returned while it is being read), and the decoder neither dies nor
   exits on it: the process can only have died in the read of a first byte. *)
C6_UnknownIsEscape ==
    /\ dpc # "done" => key = NoKey
    /\ (dpc = "done" /\ ch = ESC /\ Consumed \notin Recognised) => key = ESC
    /\ status \in {"running", "died"}
    /\ status = "died" => dpc = "first"

\* ESC [ 2 ~ has been read to its end and Escape is the key.
C6_Witness ==
    /\ dpc = "done"
    /\ ~timedout
    /\ Consumed = << ESC, 91, 50, 126 >>
    /\ key = ESC
    /\ status = "running"

(* C7, as claimed: after ESC [ a fourth byte is read only when the third
   byte is a digit '1'..'9'; any other third byte, '0' included, ends the
   decoding at once with three bytes consumed. *)
C7_FourthByteOnlyAfter1to9 ==
    (ch = ESC /\ Len(seq) >= 2 /\ seq[1] = 91) =>
        IF seq[2] >= 49 /\ seq[2] <= 57
        THEN dpc = "seq2" \/ (dpc = "done" /\ nread = 3)
        ELSE dpc = "done" /\ Len(seq) = 2 /\ nread = 2
             /\ key = (IF << ESC, 91, seq[2] >> \in Recognised
                       THEN RecognisedKey[<< ESC, 91, seq[2] >>] ELSE ESC)

(* C7, amended: after ESC [ a fourth byte is read only when the third byte
   is a digit '0'..'9'; any other third byte ends the decoding at once with
   its mapped key or the literal Escape and three bytes consumed, so the
   next byte is the first byte of the next key. *)
C7_FourthByteOnlyAfterDigit ==
    /\ (ch = ESC /\ Len(seq) >= 2 /\ seq[1] = 91) =>
          IF seq[2] >= 48 /\ seq[2] <= 57
          THEN dpc = "seq2" \/ (dpc = "done" /\ nread = 3)
          ELSE dpc = "done" /\ Len(seq) = 2 /\ nread = 2
               /\ key = (IF << ESC, 91, seq[2] >> \in Recognised
                         THEN RecognisedKey[<< ESC, 91, seq[2] >>] ELSE ESC)
    /\ (ch = ESC /\ Len(seq) >= 2 /\ seq[1] # 91) =>
          dpc = "done" /\ Len(seq) = 2
    /\ Len(seq) <= 3

\* ESC [ 0 was followed by a fourth byte, 'A', which the decoder consumed.
C7_Witness ==
    /\ dpc = "done"
    /\ ~timedout
    /\ Consumed = << ESC, 91, 48, 65 >>
    /\ key = ESC

(* ----------------------- the claims of the rows, 2 -------------------- *)

(* C11: a row whose chars hold no tab has render equal to chars byte for
   byte, rsize equal to size, and editorRowCxToRx(cx) = cx for every cx in
   [0, size]. *)
C11_TabFreeIdentity ==
    \A i \in 1..Len(row) :
      (\A j \in 1..row[i].size : row[i].chars[j] # TAB) =>
          /\ row[i].render = row[i].chars
          /\ row[i].rsize = row[i].size
          /\ \A k \in 0..row[i].size : editorRowCxToRx(row[i], k) = k

\* Two bytes 'a' have been inserted into the empty second row, and
\* editorRowCxToRx has returned 2 for its end.
C11_Witness ==
    /\ ninserts = 2
    /\ numrows = 2
    /\ row[2].chars = << 97, 97 >>
    /\ row[2].render = << 97, 97 >>
    /\ cy = 1
    /\ cx = 2
    /\ rx = 2

(* ----------------------- the claims of the keys ----------------------- *)

\* The keys of Keys that are bytes: the character keys.
CharKeys == { k \in Keys : k < 256 /\ k # CTRL_Q }

(* C12: a character key processed with cy = numrows appends an empty row
   and inserts into it: numrows grows by one, row cy has size 1 and holds
   the character, cx advances by one, cy is unchanged and every earlier row
   is unchanged.  With cy < numrows, numrows is unchanged and only row cy
   changes. *)
C12_VirtualLastRow ==
    [][\A k \in CharKeys :
         KeyInsert(k) =>
           /\ cx' = cx + 1
           /\ cy' = cy
           /\ IF cy = numrows
              THEN /\ numrows' = numrows + 1
                   /\ Len(row') = numrows + 1
                   /\ row'[cy + 1].size = 1
                   /\ row'[cy + 1].chars = << k >>
                   /\ \A i \in 1..numrows : row'[i] = row[i]
              ELSE /\ numrows' = numrows
                   /\ Len(row') = numrows
                   /\ row'[cy + 1] # row[cy + 1]
                   /\ \A i \in 1..numrows : i # cy + 1 => row'[i] = row[i]
      ]_vars

\* A tab has been typed on the virtual row below the two rows of the file.
C12_Witness ==
    /\ ninserts = 1
    /\ numrows = 3
    /\ row[3].chars = << TAB >>
    /\ row[3].size = 1
    /\ cy = 2
    /\ cx = 1
    /\ pc = "refresh"

(* C13: ArrowLeft decrements cx when cx > 0, moves to (size of row cy - 1,
   cy - 1) when cx = 0 and cy > 0, and is a no-op at (0, 0).  ArrowRight
   increments cx when cy < numrows and cx < size of row cy, moves to
   (0, cy + 1) when cy < numrows and cx = size of row cy, and is a no-op on
   the virtual row cy = numrows.  (The size of a row that is no row is 0.) *)
C13_HorizontalMoves ==
    [][/\ KeyArrow(ARROW_LEFT) =>
            /\ cx > 0 => cx' = cx - 1 /\ cy' = cy
            /\ cx = 0 /\ cy > 0 => cx' = RowLen(cy - 1) /\ cy' = cy - 1
            /\ cx = 0 /\ cy = 0 => cx' = 0 /\ cy' = 0
       /\ KeyArrow(ARROW_RIGHT) =>
            /\ cy < numrows /\ cx < RowLen(cy) => cx' = cx + 1 /\ cy' = cy
            /\ cy < numrows /\ cx = RowLen(cy) => cx' = 0 /\ cy' = cy + 1
            /\ cy = numrows => cx' = cx /\ cy' = cy
      ]_vars

(* C14: wherever the editor waits for a key, Ctrl-Q can be processed; it
   writes clear-screen, then cursor-home, and exits with code 0 without
   changing the document or the cursor.  Ctrl-Q is never stored in a row,
   and no step follows the exit. *)
C14_QuitTerminal ==
    /\ [](status = "running" /\ pc = "key" => ENABLED KeyQuit(CTRL_Q))
    /\ [][KeyQuit(CTRL_Q) =>
            /\ out' = out \o << "ESC[2J", "ESC[H" >>
            /\ status' = "exited"
            /\ UNCHANGED << cursorVars, docVars >>]_vars
    /\ [](\A i \in 1..Len(row) :
            \A j \in 1..row[i].size : row[i].chars[j] # CTRL_Q)
    /\ [][status # "exited"]_vars

\* The editor has quit after an insertion, with the cursor off the first row.
C14_Witness ==
    /\ status = "exited"
    /\ out = << "ESC[2J", "ESC[H" >>
    /\ ninserts = 1
    /\ cy > 0

(* C15: no key step changes rowoff or coloff; every refresh runs editorScroll
   first and composes the frame from the offsets the scroll left; a key is
   processed only after such a refresh, so the frame on the screen when a
   key is read was composed from the current offsets. *)
C15_ScrollOnlyInRefresh ==
    [][/\ editorProcessKeypress =>
            /\ rowoff' = rowoff
            /\ coloff' = coloff
            /\ pc = "key"
            /\ frame = editorDrawRows(rowoff, coloff)
            /\ pc' = "refresh" \/ status' # "running"
       /\ editorRefreshScreen =>
            /\ rowoff' = editorScroll.rowoff
            /\ coloff' = editorScroll.coloff
            /\ frame' = editorDrawRows(editorScroll.rowoff,
                                       editorScroll.coloff)
            /\ pc' = "key"
       /\ (rowoff' # rowoff \/ coloff' # coloff) => editorRefreshScreen
      ]_vars

\* A key is awaited with both offsets scrolled away from 0 and the frame
\* composed from them.
C15_Witness ==
    /\ pc = "key"
    /\ status = "running"
    /\ rowoff > 0
    /\ coloff > 0
    /\ frame = [filerow |-> rowoff, col |-> coloff]

(* C16: PageUp leaves cy = max(0, rowoff - screenrows); PageDown leaves
   cy = min(numrows, rowoff + 2*screenrows - 1); after either, cx is at most
   the size of the destination row (0 on the virtual row). *)
C16_PageKeys ==
    [][/\ KeyPage(PAGE_UP) =>
            /\ cy' = IF rowoff - screenrows < 0 THEN 0
                     ELSE rowoff - screenrows
            /\ cx' <= RowLen(cy')
       /\ KeyPage(PAGE_DOWN) =>
            /\ cy' = IF rowoff + 2 * screenrows - 1 > numrows THEN numrows
                     ELSE rowoff + 2 * screenrows - 1
            /\ cx' <= RowLen(cy')
      ]_vars

(* C17: a key handler dereferences only rows with an index in [0, numrows):
   the insertion writes row cy only with cy < numrows after the optional
   append, ArrowLeft's wrap reads the size of row cy - 1 only when
   cy - 1 < numrows, and End reads row cy only when cy < numrows. *)
C17_RowAccessInBounds ==
    [][/\ \A k \in Keys :
            (KeyInsert(k) \/ KeyInsertOutside(k)) => cy < numrows'
       /\ KeyArrow(ARROW_LEFT) =>
            /\ ~ editorMoveCursor([cx |-> cx, cy |-> cy], ARROW_LEFT, 0).oob
            /\ cx = 0 /\ cy > 0 => cy - 1 < numrows
       /\ KeyEnd(END_KEY) /\ cx' # cx => cy < numrows
      ]_vars

\* The keys of Keys that editorReadKey decodes from an escape sequence.
NamedKeys ==
    { ARROW_LEFT, ARROW_RIGHT, ARROW_UP, ARROW_DOWN, DEL_KEY, HOME_KEY,
      END_KEY, PAGE_UP, PAGE_DOWN }

(* C18: processing a named key (an arrow, Home, End, PageUp, PageDown,
   Delete) never changes numrows or the chars of any row. *)
C18_NamedKeysLeaveDocument ==
    [][\A k \in NamedKeys :
         ( \/ KeyHome(k) \/ KeyEnd(k) \/ KeyPage(k) \/ KeyArrow(k)
           \/ KeyInsert(k) \/ KeyInsertOutside(k) ) =>
             /\ numrows' = numrows
             /\ Len(row') = Len(row)
             /\ \A i \in 1..Len(row) : row'[i].chars = row[i].chars
      ]_vars

(* ----------------------- the claims of the rows, 3 -------------------- *)

(* C19: for every row, editorRowCxToRx(size) = rsize, and for every cx in
   [0, size) whose byte is not a tab, the render holds that byte at column
   editorRowCxToRx(cx). *)
C19_RenderColumnAgreement ==
    \A i \in 1..Len(row) :
      LET f == [j \in 0..row[i].size |-> editorRowCxToRx(row[i], j)]
      IN  /\ f[row[i].size] = row[i].rsize
          /\ \A k \in 0..(row[i].size - 1) :
               row[i].chars[k + 1] # TAB =>
                   /\ f[k] < row[i].rsize
                   /\ row[i].render[f[k] + 1] = row[i].chars[k + 1]

\* A tab has been inserted in front of "ab<tab>c"; editorRowCxToRx has
\* returned 16 for the 'c', and the render holds the 'c' at column 16.
C19_Witness ==
    /\ ninserts = 1
    /\ row[1].chars = << TAB, 97, 98, TAB, 99 >>
    /\ cy = 0
    /\ cx = 4
    /\ rx = 2 * EDIT_TAB_STOP
    /\ row[1].rsize = 2 * EDIT_TAB_STOP + 1
    /\ row[1].render[rx + 1] = 99

(* ----------------------- the claims of the keys, 2 -------------------- *)

\* A cursor inside the document: 0 <= cy <= numrows, 0 <= cx <= size of row cy.
ValidCursor == cy >= 0 /\ cy <= numrows /\ cx >= 0 /\ cx <= RowLen(cy)

(* C20: from a state with 0 <= cy <= numrows and 0 <= cx <= size of row cy,
   whenever ArrowRight changes (cx, cy), an ArrowLeft that follows it at once
   restores the cursor, and whenever ArrowLeft changes it, an ArrowRight that
   follows at once restores it; wraps and the virtual row included. *)
C20_LeftRightInverse ==
    [][/\ ( /\ KeyArrow(ARROW_RIGHT)
            /\ ValidCursor
            /\ << cx', cy' >> # << cx, cy >> ) =>
              \A g \in GarbageSizes :
                LET b == editorMoveCursor([cx |-> cx', cy |-> cy'],
                                          ARROW_LEFT, g)
                IN  b.cx = cx /\ b.cy = cy
       /\ ( /\ KeyArrow(ARROW_LEFT)
            /\ ValidCursor
            /\ << cx', cy' >> # << cx, cy >> ) =>
              \A g \in GarbageSizes :
                LET b == editorMoveCursor([cx |-> cx', cy |-> cy'],
                                          ARROW_RIGHT, g)
                IN  b.cx = cx /\ b.cy = cy
      ]_vars

\* ArrowRight at the end of the only row "aaaaa<tab>" has wrapped onto the
\* virtual row; rx is still the column of the row's end.
C20_Witness ==
    /\ pc = "refresh"
    /\ ninserts = 0
    /\ screenrows = 1
    /\ numrows = 1
    /\ row[1].size = 6
    /\ cy = 1
    /\ cx = 0
    /\ rx = EDIT_TAB_STOP

====
